---- MODULE Spec2Model ----
(***************************************************************************)
(* Model of src/src/udp_echo.c: a UDP echo program that answers from the   *)
(* local address a datagram was sent to, by handing the ancillary data of  *)
(* recvmsg() back to sendmsg().                                            *)
(*                                                                         *)
(* The program is main() (option parsing, socket, bind, setsockopt, the    *)
(* receive/echo loop), print_info() and the decoder pktinfo_get().  The    *)
(* kernel is the environment: socket(), bind(), setsockopt(), recvmsg()    *)
(* and sendmsg() are modelled by what Linux does at the call sites         *)
(* (ip(7), ipv6(7), udp(7)).                                               *)
(***************************************************************************)
EXTENDS Integers, Sequences, FiniteSets, TLC

VARIABLES
    pc,           \* position of main(): socket, bind, setsockopt, recv, log, send, done
    count,        \* int count            (line 130, option -c)
    addr_family,  \* int addr_family      (line 132, options -4 / -6)
    verbose,      \* static int verbose   (line 34, option -v)
    fd,           \* int fd               (line 142)
    sock,         \* kernel state of the socket: bound, and the pktinfo options that are on
    msghdr,       \* struct msghdr msghdr (line 126), with vec[0].iov_len
    cbuf,         \* char cbuf[512]: the ancillary records it holds
    frame,        \* char frame[8192]: its first MaxLen bytes
    rem_addr,     \* struct sockaddr_storage rem_addr (line 124)
    res,          \* int res              (line 125)
    exit_status,  \* process exit status, Running while main() has not returned
    info,         \* locals of the latest print_info()/pktinfo_get() call
    stdout,       \* what the latest print_info() printed
    stderr,       \* diagnostics written since the latest recvmsg() returned
    dgram,        \* the datagram the peer sent that recvmsg() last delivered
    reply,        \* the sendmsg() issued for dgram, NoReply before it
    nrecv,        \* number of successful recvmsg() calls
    nsend,        \* number of sendmsg() calls
    cause,        \* why main() returned
    count0        \* the configured count (value of count when the loop starts)

vars == <<pc, count, addr_family, verbose, fd, sock, msghdr, cbuf, frame,
          rem_addr, res, exit_status, info, stdout, stderr, dgram, reply,
          nrecv, nsend, cause, count0>>

(***************************************************************************)
(* Bounds of the model.                                                    *)
(***************************************************************************)
MaxLen == 1      \* longest payload a peer sends
MaxCount == 2    \* largest small value given to -c
MaxRecv == 2     \* recvmsg() calls that deliver a datagram in one run
MaxCmsgs == 3    \* records in a synthetic metadata block given to the decoder
MaxQueued == 1   \* datagrams queued on the socket before its options are set

(***************************************************************************)
(* Program and platform constants (Linux, LP64).                           *)
(***************************************************************************)
AF_INET == 2
AF_INET6 == 10
IPPROTO_IP == 0
IPPROTO_IPV6 == 41
IP_PKTINFO == 8
IPV6_PKTINFO == 50
DEBUG == 1
DefaultCount == 1000000
sizeof_frame == 8192
sizeof_cbuf == 512
sizeof_cmsghdr == 16
sizeof_in_pktinfo == 12
sizeof_in6_pktinfo == 20
INT_MAX == 2147483647
INT_MIN == -INT_MAX - 1
SIGABRT_STATUS == 134

Indet == 0 - 1         \* an indeterminate (never written) byte or integer
Running == Indet       \* exit_status while main() has not returned

Min(a, b) == IF a < b THEN a ELSE b

(***************************************************************************)
(* Addresses.  An IPv4 address is its 4 octets, an IPv6 address its 8      *)
(* 16-bit groups.                                                          *)
(***************************************************************************)
LocalAddr4 == {<<10, 0, 0, 5>>, <<10, 0, 0, 6>>}
LocalAddr6 == {<<8193, 3512, 0, 0, 0, 0, 0, 5>>, <<8193, 3512, 0, 0, 0, 0, 0, 6>>}
PeerAddr4 == {<<10, 0, 1, 1>>, <<10, 0, 1, 2>>}
PeerAddr6 == {<<8193, 3512, 0, 0, 0, 0, 1, 1>>, <<8193, 3512, 0, 0, 0, 0, 1, 2>>}
PeerPorts == {5000}
Byte == {0, 1}
NoAddr == <<>>

\* ::ffff:a.b.c.d
V4Mapped(a) == <<0, 0, 0, 0, 0, 65535, a[1] * 256 + a[2], a[3] * 256 + a[4]>>
IsV4Mapped(a6) == Len(a6) = 8 /\ \A i \in 1..5 : a6[i] = 0 /\ a6[6] = 65535
\* s6_addr32[3] of a v4-mapped address
V4Of(a6) == <<a6[7] \div 256, a6[7] % 256, a6[8] \div 256, a6[8] % 256>>

\* htons()/ntohs() on a little-endian host
htons(x) == (x % 256) * 256 + (x \div 256)

(***************************************************************************)
(* Ancillary data: struct cmsghdr and the CMSG_* macros of <sys/socket.h>. *)
(* A record is [cmsg_len, cmsg_level, cmsg_type, data]; data is a struct   *)
(* in_pktinfo, a struct in6_pktinfo, or NoData for any other record.       *)
(***************************************************************************)
CMSG_ALIGN(len) == ((len + 7) \div 8) * 8
CMSG_LEN(len) == CMSG_ALIGN(sizeof_cmsghdr) + len

NoData == [raw |-> 0]
\* struct in_pktinfo / struct in6_pktinfo never written (stack garbage)
IndetPktinfo == [ipi_ifindex |-> Indet, ipi_spec_dst |-> NoAddr, ipi_addr |-> NoAddr]
IndetPktinfo6 == [ipi6_addr |-> NoAddr, ipi6_ifindex |-> Indet]

Cmsg4(ifindex, spec_dst, addr) ==
    [cmsg_len |-> CMSG_LEN(sizeof_in_pktinfo), cmsg_level |-> IPPROTO_IP,
     cmsg_type |-> IP_PKTINFO,
     data |-> [ipi_ifindex |-> ifindex, ipi_spec_dst |-> spec_dst, ipi_addr |-> addr]]
Cmsg6(addr, ifindex) ==
    [cmsg_len |-> CMSG_LEN(sizeof_in6_pktinfo), cmsg_level |-> IPPROTO_IPV6,
     cmsg_type |-> IPV6_PKTINFO,
     data |-> [ipi6_addr |-> addr, ipi6_ifindex |-> ifindex]]
CmsgOther(level, type, datalen) ==
    [cmsg_len |-> CMSG_LEN(datalen), cmsg_level |-> level,
     cmsg_type |-> type, data |-> NoData]

\* Bytes the first n records of a block take.
RECURSIVE BlockLen(_, _)
BlockLen(buf, n) ==
    IF n = 0 THEN 0
    ELSE BlockLen(buf, n - 1) + CMSG_ALIGN(buf[n].cmsg_len)

\* The last len bytes of a record whose head was overwritten: no header is
\* left, level and type are not known; the field cmsg_len holds the number
\* of bytes so that the records behind keep their offsets.
Remnant(len) ==
    [cmsg_len |-> len, cmsg_level |-> Indet, cmsg_type |-> Indet, data |-> NoData]

\* The buffer char cbuf[512] after recvmsg() wrote the records new at its
\* start: what the buffer held before (old) stays behind them.
Overlay(old, new) ==
    LET n == BlockLen(new, Len(new))
        K == {j \in 0..Len(old) : BlockLen(old, j) >= n}
    IN  IF K = {} THEN new
        ELSE LET k == CHOOSE j \in K : \A i \in K : j <= i
                 gap == BlockLen(old, k) - n
             IN  new \o (IF gap > 0 THEN <<Remnant(gap)>> ELSE <<>>)
                     \o SubSeq(old, k + 1, Len(old))

\* CMSG_FIRSTHDR: the first record, or 0 (NULL) when msg_controllen cannot
\* hold a header.  Records are named by their index in the buffer.
CMSG_FIRSTHDR(my_hdr, buf) ==
    IF my_hdr.msg_controllen >= sizeof_cmsghdr /\ Len(buf) >= 1 THEN 1 ELSE 0

\* CMSG_NXTHDR: the record after i, or 0 (NULL) when record i is shorter
\* than a header or the first msg_controllen bytes cannot hold record i and
\* the header of the next one.  The data of the record returned may lie
\* beyond msg_controllen.
CMSG_NXTHDR(my_hdr, buf, i) ==
    IF /\ i + 1 <= Len(buf)
       /\ buf[i].cmsg_len >= sizeof_cmsghdr
       /\ BlockLen(buf, i) + sizeof_cmsghdr <= my_hdr.msg_controllen
    THEN i + 1 ELSE 0

(***************************************************************************)
(* pktinfo_get(): the decoder.  It scans the records of the block in       *)
(* order; st is [res, pktinfo, pktinfo6, diag, scanned]: the return value, *)
(* the two output structs, the lines written to stderr and the number of   *)
(* records the loop body ran for.                                          *)
(***************************************************************************)
\* Variant: the record type is tested without its level.
IsPktinfo4_TypeOnly(c) == c.cmsg_type = IP_PKTINFO

IsPktinfo4(c) == c.cmsg_level = IPPROTO_IP /\ c.cmsg_type = IP_PKTINFO
IsPktinfo6(c) == c.cmsg_level = IPPROTO_IPV6 /\ c.cmsg_type = IPV6_PKTINFO

UnknownDiag(c) ==
    [msg |-> "Unknown ancillary data", len |-> c.cmsg_len,
     level |-> c.cmsg_level, type |-> c.cmsg_type]

\* Variant: the first destination-info record is kept, later ones are skipped.
ScanStep_FirstWins(st, c) ==
    IF st.res # -1 /\ (c.cmsg_level = IPPROTO_IP \/ c.cmsg_level = IPPROTO_IPV6)
    THEN [st EXCEPT !.scanned = @ + 1]
    ELSE IF c.cmsg_level = IPPROTO_IP /\ c.cmsg_type = IP_PKTINFO
    THEN [st EXCEPT !.pktinfo = c.data, !.res = AF_INET, !.scanned = @ + 1]
    ELSE IF c.cmsg_level = IPPROTO_IPV6 /\ c.cmsg_type = IPV6_PKTINFO
    THEN [st EXCEPT !.pktinfo6 = c.data, !.res = AF_INET6, !.scanned = @ + 1]
    ELSE [st EXCEPT !.diag = Append(@, UnknownDiag(c)), !.scanned = @ + 1]

\* The loop body, lines 59-73.
ScanStep(st, c) ==
    IF IsPktinfo4(c)
    THEN [st EXCEPT !.pktinfo = c.data, !.res = AF_INET, !.scanned = @ + 1]
    ELSE IF IsPktinfo6(c)
    THEN [st EXCEPT !.pktinfo6 = c.data, !.res = AF_INET6, !.scanned = @ + 1]
    ELSE IF DEBUG # 0
    THEN [st EXCEPT !.diag = Append(@, UnknownDiag(c)), !.scanned = @ + 1]
    ELSE [st EXCEPT !.scanned = @ + 1]

\* The for loop, lines 57-74, from record get_cmsg on.
RECURSIVE pktinfo_scan(_, _, _, _)
pktinfo_scan(my_hdr, buf, get_cmsg, st) ==
    IF get_cmsg = 0 THEN st
    ELSE pktinfo_scan(my_hdr, buf, CMSG_NXTHDR(my_hdr, buf, get_cmsg),
                      ScanStep(st, buf[get_cmsg]))

pktinfo_get(my_hdr, buf, pktinfo, pktinfo6) ==
    LET st0 == [res |-> -1, pktinfo |-> pktinfo, pktinfo6 |-> pktinfo6,
                diag |-> <<>>, scanned |-> 0]
    IN  IF my_hdr.msg_controllen > 0
        THEN pktinfo_scan(my_hdr, buf, CMSG_FIRSTHDR(my_hdr, buf), st0)
        ELSE st0

(***************************************************************************)
(* print_info().  rem_addr is the sockaddr_storage msg_name points to:     *)
(* [ss_family, port, w4, w16] with port in network byte order, w4 bytes    *)
(* 4..7 (sin_addr of a sockaddr_in, sin6_flowinfo of a sockaddr_in6) and   *)
(* w16 bytes 8..23 (sin6_addr of a sockaddr_in6).  The casts of lines 91   *)
(* and 100 read those bytes whatever ss_family says.                       *)
(***************************************************************************)
IndetName == [ss_family |-> Indet, port |-> Indet, w4 |-> NoAddr, w16 |-> NoAddr]
AsSockaddrIn(ss) == [sin_port |-> ss.port, sin_addr |-> ss.w4]
AsSockaddrIn6(ss) == [sin6_port |-> ss.port, sin6_addr |-> ss.w16]

\* inet_ntop(): the text is fixed by the notation (af) and the bytes.
inet_ntop(af, bytes) == [af |-> af, bytes |-> bytes]
IndetText == [af |-> Indet, bytes |-> NoAddr]

NoInfo == [called |-> FALSE]
NoLine == [printed |-> FALSE]
NoDstDiag == [msg |-> "No destination IP data found (ancillary data)"]

\* Result of print_info(): its locals (info), its stdout line and its
\* stderr lines.
print_info(my_hdr, buf, name, vb) ==
    LET st == pktinfo_get(my_hdr, buf, IndetPktinfo, IndetPktinfo6)
        af == st.res
        from_addr == IF af = AF_INET
                     THEN inet_ntop(af, AsSockaddrIn(name).sin_addr)
                     ELSE IF af = AF_INET6
                     THEN inet_ntop(af, AsSockaddrIn6(name).sin6_addr)
                     ELSE IndetText
        to_addr == IF af = AF_INET
                   THEN inet_ntop(af, st.pktinfo.ipi_spec_dst)
                   ELSE IF af = AF_INET6
                   THEN inet_ntop(af, st.pktinfo6.ipi6_addr)
                   ELSE IndetText
        rem_port == IF af = AF_INET THEN AsSockaddrIn(name).sin_port
                    ELSE IF af = AF_INET6 THEN AsSockaddrIn6(name).sin6_port
                    ELSE Indet
        extra == DEBUG # 0 /\ vb # 0 /\ af = AF_INET
    IN  [info |-> [called |-> TRUE, addr_family |-> af, pktinfo |-> st.pktinfo,
                   pktinfo6 |-> st.pktinfo6, scanned |-> st.scanned,
                   name_family |-> name.ss_family],
         stdout |-> [printed |-> TRUE, echo_size |-> Indet,
                     to_addr |-> to_addr, from_addr |-> from_addr,
                     port |-> IF rem_port = Indet THEN Indet ELSE htons(rem_port),
                     extra |-> extra,
                     ipi_addr |-> IF extra THEN st.pktinfo.ipi_addr ELSE NoAddr,
                     ipi_ifindex |-> IF extra THEN st.pktinfo.ipi_ifindex ELSE Indet],
         stderr |-> IF af = AF_INET \/ af = AF_INET6 THEN st.diag
                    ELSE Append(st.diag, NoDstDiag)]

(***************************************************************************)
(* The kernel at the call sites of main().                                 *)
(***************************************************************************)
Payloads == UNION {[1..n -> Byte] : n \in 0..MaxLen}
Ifindexes == {2}

\* Datagrams a peer can send to a socket of family af bound to the wildcard
\* address: IPv4 ones to an AF_INET socket, IPv4 and IPv6 ones to an
\* AF_INET6 socket (dual stack, IPV6_V6ONLY is not set).  dst is the local
\* address the peer sent to.
Datagrams(af) ==
    [fam : {AF_INET}, peer : PeerAddr4, port : PeerPorts, payload : Payloads,
     dst : LocalAddr4, ifindex : Ifindexes]
    \cup (IF af = AF_INET6
          THEN [fam : {AF_INET6}, peer : PeerAddr6, port : PeerPorts,
                payload : Payloads, dst : LocalAddr6, ifindex : Ifindexes]
          ELSE {})

\* recvmsg(): the peer name written through msg_name.
KernelName(af, d) ==
    IF af = AF_INET
    THEN [ss_family |-> AF_INET, port |-> htons(d.port), w4 |-> d.peer, w16 |-> NoAddr]
    ELSE [ss_family |-> AF_INET6, port |-> htons(d.port), w4 |-> <<0, 0, 0, 0>>,
          w16 |-> IF d.fam = AF_INET THEN V4Mapped(d.peer) ELSE d.peer]

\* recvmsg(): the ancillary records written to msg_control, as the options
\* set on the socket ask for (ip(7) IP_PKTINFO, ipv6(7) IPV6_RECVPKTINFO).
\* For an IPv4 datagram the kernel notes the interface and the local
\* address when it queues the datagram, and only if an option asks for them
\* then: a datagram queued early, that is after bind() (line 158) and
\* before any option of lines 164-165 was on, has ipi_ifindex 0 and
\* ipi_spec_dst 0.0.0.0; ipi_addr is read from the IP header at recvmsg().
KernelControl(af, opt, d, early) ==
    LET ifindex4 == IF early THEN 0 ELSE d.ifindex
        spec_dst == IF early THEN <<0, 0, 0, 0>> ELSE d.dst
    IN  IF af = AF_INET
        THEN IF opt.pktinfo THEN <<Cmsg4(ifindex4, spec_dst, d.dst)>> ELSE <<>>
        ELSE (IF opt.recvpktinfo
              THEN <<IF d.fam = AF_INET THEN Cmsg6(V4Mapped(d.dst), ifindex4)
                                        ELSE Cmsg6(d.dst, d.ifindex)>>
              ELSE <<>>)
             \o (IF d.fam = AF_INET /\ opt.pktinfo
                 THEN <<Cmsg4(ifindex4, spec_dst, d.dst)>> ELSE <<>>)

\* The records of buf that lie within the first msg_controllen bytes.
Visible(my_hdr, buf) ==
    LET S == {n \in 0..Len(buf) : BlockLen(buf, n) <= my_hdr.msg_controllen}
        n == CHOOSE k \in S : \A j \in S : j <= k
    IN  SubSeq(buf, 1, n)

\* sendmsg(): the source address the kernel gives the datagram.  The last
\* destination-info record of the outgoing block that the output path
\* reads decides, and an unspecified address in it (0.0.0.0, ::) leaves the
\* choice to the kernel's routing (dflt), as a block without such a record
\* does.  v4 is TRUE on the IPv4 output path, which reads IP_PKTINFO
\* records and, on an AF_INET6 socket only, IPV6_PKTINFO records with a
\* v4-mapped address; the IPv6 output path reads IPV6_PKTINFO records.
Unspecified(a) == \A i \in 1..Len(a) : a[i] = 0
RECURSIVE KernelSource(_, _, _, _)
KernelSource(af, ctl, v4, dflt) ==
    IF ctl = <<>> THEN dflt
    ELSE LET c == ctl[Len(ctl)]
             rest == SubSeq(ctl, 1, Len(ctl) - 1)
             pick(a) == IF Unspecified(a) THEN dflt ELSE a
         IN  IF v4 /\ c.cmsg_level = IPPROTO_IP /\ c.cmsg_type = IP_PKTINFO
             THEN pick(c.data.ipi_spec_dst)
             ELSE IF v4 /\ af = AF_INET6
                     /\ c.cmsg_level = IPPROTO_IPV6 /\ c.cmsg_type = IPV6_PKTINFO
                     /\ IsV4Mapped(c.data.ipi6_addr)
             THEN pick(V4Of(c.data.ipi6_addr))
             ELSE IF ~v4 /\ c.cmsg_level = IPPROTO_IPV6 /\ c.cmsg_type = IPV6_PKTINFO
             THEN pick(c.data.ipi6_addr)
             ELSE KernelSource(af, rest, v4, dflt)

\* The bytes of the first n bytes of the frame buffer that the model holds.
Take(buf, n) == SubSeq(buf, 1, Min(n, Len(buf)))

NoReply == [issued |-> FALSE]

\* sendmsg(): the destination read through msg_name, and whether the
\* datagram leaves on the IPv4 output path (an AF_INET socket, or a
\* v4-mapped destination on an AF_INET6 socket).
SendDest(af, name) ==
    IF af = AF_INET THEN AsSockaddrIn(name).sin_addr
    ELSE AsSockaddrIn6(name).sin6_addr
SendV4(af, name) == af = AF_INET \/ IsV4Mapped(SendDest(af, name))

\* The local addresses the kernel's routing may pick as the source when no
\* record directs it: any address of the host in the family.
DefaultSources(af, name) == IF SendV4(af, name) THEN LocalAddr4 ELSE LocalAddr6

\* sendmsg(fd, &msghdr, 0): the datagram handed to the network.  ok tells
\* whether the call succeeded, dflt is the kernel's default source.
KernelSendmsg(af, my_hdr, buf, fr, name, ok, dflt) ==
    LET ctl == Visible(my_hdr, buf)
    IN  [issued |-> TRUE, ok |-> ok,
         to |-> SendDest(af, name), port |-> htons(name.port),
         payload |-> Take(fr, my_hdr.iov_len), len |-> my_hdr.iov_len,
         control |-> ctl,
         src |-> KernelSource(af, ctl, SendV4(af, name), dflt)]

(***************************************************************************)
(* main().                                                                 *)
(***************************************************************************)
\* Values the options give: -c (atoi), -4 / -6, -v.
CountValues == {INT_MIN, -1, 0, DefaultCount} \cup (1..MaxCount)
FamilyValues == {AF_INET, AF_INET6}
VerboseValues == {0, 1}

IndetMsghdr == [msg_namelen |-> Indet, msg_controllen |-> Indet, iov_len |-> Indet]
sizeof_rem_addr == 128
sizeof_sockaddr_in == 16
sizeof_sockaddr_in6 == 28

\* State after the getopt() loop, lines 123-140.
Init ==
    /\ pc = "socket"
    /\ count \in CountValues
    /\ addr_family \in FamilyValues
    /\ verbose \in VerboseValues
    /\ fd = Indet
    /\ sock = [bound |-> FALSE, pktinfo |-> FALSE, recvpktinfo |-> FALSE,
               queued |-> 0]
    /\ msghdr = IndetMsghdr
    /\ cbuf = <<>>
    /\ frame = [i \in 1..MaxLen |-> Indet]
    /\ rem_addr = IndetName
    /\ res = Indet
    /\ exit_status = Running
    /\ info = NoInfo
    /\ stdout = NoLine
    /\ stderr = <<>>
    /\ dgram = [received |-> FALSE]
    /\ reply = NoReply
    /\ nrecv = 0
    /\ nsend = 0
    /\ cause = "none"
    /\ count0 = count

\* Line 142: fd = socket(addr_family, SOCK_DGRAM, 0); the result is not tested.
Socket ==
    /\ pc = "socket"
    /\ fd' \in {-1, 3}
    /\ pc' = "bind"
    /\ UNCHANGED <<count, addr_family, verbose, sock, msghdr, cbuf, frame,
                   rem_addr, res, exit_status, info, stdout, stderr, dgram,
                   reply, nrecv, nsend, cause, count0>>

\* bind(): EBADF on a bad descriptor, else success or failure (EADDRINUSE, EACCES).
KernelBind(f) == IF f < 0 THEN {-1} ELSE {0, -1}

\* Variant: the result of bind() is not tested.
BindFailed_Never(r) == FALSE

\* Line 158: the test of bind()'s result.
BindFailed(r) == r = -1

\* Lines 144-161.
Bind ==
    /\ pc = "bind"
    /\ \E r \in KernelBind(fd) :
         /\ sock' = [sock EXCEPT !.bound = (r = 0)]
         /\ IF BindFailed(r)
            THEN /\ stderr' = Append(stderr, [msg |-> "bind"])
                 /\ exit_status' = 1
                 /\ cause' = "bind"
                 /\ pc' = "done"
            ELSE /\ pc' = "setsockopt"
                 /\ UNCHANGED <<stderr, exit_status, cause>>
    /\ UNCHANGED <<count, addr_family, verbose, fd, msghdr, cbuf, frame,
                   rem_addr, res, info, stdout, dgram, reply, nrecv, nsend, count0>>

\* setsockopt(): the options that can be on afterwards.  IPV6_RECVPKTINFO
\* is refused on an AF_INET socket; any call may fail.
KernelSetsockopt(af, sk) ==
    {[sk EXCEPT !.pktinfo = a, !.recvpktinfo = b] :
        a \in BOOLEAN, b \in IF af = AF_INET6 THEN BOOLEAN ELSE {FALSE}}

\* Between bind() (line 158) and the first setsockopt() (line 164) the
\* socket is bound and a datagram that arrives is queued on it.
ArriveEarly ==
    /\ pc = "setsockopt"
    /\ sock.bound
    /\ sock.queued < MaxQueued
    /\ sock' = [sock EXCEPT !.queued = @ + 1]
    /\ UNCHANGED <<pc, count, addr_family, verbose, fd, msghdr, cbuf, frame,
                   rem_addr, res, exit_status, info, stdout, stderr, dgram,
                   reply, nrecv, nsend, cause, count0>>

\* Lines 164-165: both results are ignored.
Setsockopt ==
    /\ pc = "setsockopt"
    /\ sock' \in KernelSetsockopt(addr_family, sock)
    /\ pc' = "recv"
    /\ UNCHANGED <<count, addr_family, verbose, fd, msghdr, cbuf, frame, rem_addr,
                   res, exit_status, info, stdout, stderr, dgram, reply, nrecv,
                   nsend, cause, count0>>

\* Lines 168-176: the msghdr handed to recvmsg().
RecvMsghdr ==
    [msg_namelen |-> sizeof_rem_addr, msg_controllen |-> sizeof_cbuf,
     iov_len |-> sizeof_frame]

\* Variant: a return value of 0 is taken for a failure too.
RecvFailed_NonPositive(r) == r <= 0

\* Line 178: the test of recvmsg()'s result.
RecvFailed(r) == r = -1

\* recvmsg() writes the first n bytes of the payload over the buffer.
WriteFrame(fr, payload, n) ==
    [i \in 1..Len(fr) |-> IF i <= n THEN payload[i] ELSE fr[i]]

\* Variant: an empty datagram is skipped (continue) instead of echoed.
AfterRecv_SkipEmpty(r) ==
    IF r = -1
    THEN pc' = "done" /\ exit_status' = 0 /\ cause' = "recv"
    ELSE /\ pc' = IF r = 0 THEN "recv" ELSE IF verbose > 0 THEN "log" ELSE "send"
         /\ UNCHANGED <<exit_status, cause>>

\* Lines 178-179 and 195: break and return 0 when recvmsg() failed, else go
\* on to line 181.
AfterRecv(r) ==
    IF RecvFailed(r)
    THEN pc' = "done" /\ exit_status' = 0 /\ cause' = "recv"
    ELSE /\ pc' = IF verbose > 0 THEN "log" ELSE "send"
         /\ UNCHANGED <<exit_status, cause>>

\* Lines 167-179, recvmsg() fails and returns -1.
RecvError ==
    /\ pc = "recv"
    /\ msghdr' = RecvMsghdr
    /\ res' = -1
    /\ AfterRecv(res')
    /\ UNCHANGED <<count, addr_family, verbose, fd, sock, cbuf, frame, rem_addr,
                   info, stdout, stderr, dgram, reply, nrecv, nsend, count0>>

\* The runs that are followed: the first MaxRecv datagrams of a run, and
\* the datagrams received while the counter is within MaxCount of zero.
Followed == nrecv < MaxRecv \/ (0 < count /\ count <= MaxCount)

\* Lines 167-179, recvmsg() delivers datagram d and returns its length.
RecvOk ==
    /\ pc = "recv"
    /\ fd >= 0
    /\ sock.bound
    /\ Followed
    /\ \E d \in Datagrams(addr_family) :
         LET ctl == KernelControl(addr_family, sock, d, sock.queued > 0)
             n == Min(Len(d.payload), RecvMsghdr.iov_len)
             name == KernelName(addr_family, d)
         IN  /\ res' = n
             /\ frame' = WriteFrame(frame, d.payload, n)
             /\ rem_addr' = name
             /\ cbuf' = Overlay(cbuf, ctl)
             /\ msghdr' = [RecvMsghdr EXCEPT
                              !.msg_namelen = IF addr_family = AF_INET
                                              THEN sizeof_sockaddr_in
                                              ELSE sizeof_sockaddr_in6,
                              !.msg_controllen = BlockLen(ctl, Len(ctl))]
             /\ dgram' = [received |-> TRUE, d |-> d, name |-> name, control |-> ctl]
    /\ reply' = NoReply
    /\ info' = NoInfo
    /\ stdout' = NoLine
    /\ stderr' = <<>>
    /\ nrecv' = nrecv + 1
    /\ sock' = [sock EXCEPT !.queued = IF @ > 0 THEN @ - 1 ELSE 0]
    /\ AfterRecv(res')
    /\ UNCHANGED <<count, addr_family, verbose, fd, nsend, count0>>

\* Variant: when no destination info is found the datagram is not echoed
\* (continue after the diagnostic).
Log_SkipOnAbsent ==
    /\ pc = "log"
    /\ LET p == print_info(msghdr, cbuf, rem_addr, verbose)
       IN  /\ info' = p.info
           /\ stdout' = [p.stdout EXCEPT !.echo_size = res]
           /\ stderr' = stderr \o p.stderr
           /\ pc' = IF p.info.addr_family = -1 THEN "recv" ELSE "send"
    /\ UNCHANGED <<count, addr_family, verbose, fd, sock, msghdr, cbuf, frame,
                   rem_addr, res, exit_status, dgram, reply, nrecv, nsend, cause,
                   count0>>

\* Variant: print_info() leaves the header without its ancillary block.
Log_Clobber ==
    /\ pc = "log"
    /\ LET p == print_info(msghdr, cbuf, rem_addr, verbose)
       IN  /\ info' = p.info
           /\ stdout' = [p.stdout EXCEPT !.echo_size = res]
           /\ stderr' = stderr \o p.stderr
    /\ msghdr' = [msghdr EXCEPT !.msg_controllen = 0]
    /\ pc' = "send"
    /\ UNCHANGED <<count, addr_family, verbose, fd, sock, cbuf, frame, rem_addr,
                   res, exit_status, dgram, reply, nrecv, nsend, cause, count0>>

\* Lines 181-184.
Log ==
    /\ pc = "log"
    /\ LET p == print_info(msghdr, cbuf, rem_addr, verbose)
       IN  /\ info' = p.info
           /\ stdout' = [p.stdout EXCEPT !.echo_size = res]   \* line 183
           /\ stderr' = stderr \o p.stderr
    /\ pc' = "send"
    /\ UNCHANGED <<count, addr_family, verbose, fd, sock, msghdr, cbuf, frame,
                   rem_addr, res, exit_status, dgram, reply, nrecv, nsend, cause,
                   count0>>

\* Variant: only a datagram that was sent is counted.
SendConsumesCount_OnlyOk(ok) == ok

\* Lines 191-192: the result of sendmsg() is not looked at, the decrement
\* follows whether the send succeeded (ok) or not.
SendConsumesCount(ok) == TRUE

\* Variant: the whole control buffer is sent, whatever the receive filled.
SendMsghdr_FullControl(my_hdr, r) ==
    [my_hdr EXCEPT !.iov_len = r, !.msg_controllen = sizeof_cbuf]

\* Variant: line 190 is missing, iov_len stays the buffer's capacity.
SendMsghdr_KeepCapacity(my_hdr, r) == my_hdr

\* Line 190: vec[0].iov_len = res; the rest of msghdr is as recvmsg() left it.
SendMsghdr(my_hdr, r) == [my_hdr EXCEPT !.iov_len = r]

\* Variant: count-- == 0, the test sees the value before the decrement.
DecAndTest_Post(c) == [count |-> c - 1, stop |-> c = 0]

\* Line 192: --count == 0, for count above INT_MIN.
DecAndTest(c) == [count |-> c - 1, stop |-> c - 1 = 0]

\* Lines 190-194, and line 195 when the loop ends.  Decrementing INT_MIN
\* is a signed overflow: the build either wraps or traps (-ftrapv).
Reply ==
    /\ pc = "send"
    /\ msghdr' = SendMsghdr(msghdr, res)
    /\ \E ok \in BOOLEAN, dflt \in DefaultSources(addr_family, rem_addr) :
         /\ reply' = KernelSendmsg(addr_family, msghdr', cbuf, frame, rem_addr,
                                   ok, dflt)
         /\ IF SendConsumesCount(ok)
            THEN \/ /\ count > INT_MIN
                    /\ count' = DecAndTest(count).count
                    /\ IF DecAndTest(count).stop
                       THEN pc' = "done" /\ exit_status' = 0 /\ cause' = "count"
                       ELSE pc' = "recv" /\ UNCHANGED <<exit_status, cause>>
                 \/ /\ count = INT_MIN
                    /\ count' = INT_MAX
                    /\ pc' = "recv"
                    /\ UNCHANGED <<exit_status, cause>>
                 \/ /\ count = INT_MIN
                    /\ count' = count
                    /\ pc' = "done"
                    /\ exit_status' = SIGABRT_STATUS
                    /\ cause' = "trap"
            ELSE pc' = "recv" /\ UNCHANGED <<count, exit_status, cause>>
    /\ nsend' = nsend + 1
    /\ UNCHANGED <<addr_family, verbose, fd, sock, cbuf, frame, rem_addr, res,
                   info, stdout, stderr, dgram, nrecv, count0>>

Next == Socket \/ Bind \/ ArriveEarly \/ Setsockopt \/ RecvError \/ RecvOk \/ Log \/ Reply

Spec == Init /\ [][Next]_vars

\* The ancillary blocks recvmsg() can deliver on the socket, for datagrams
\* queued early or not, and the contents the control buffer can have after
\* up to k more deliveries.
Controls(af, sk, early) ==
    {KernelControl(af, sk, d, early) : d \in Datagrams(af)}
RECURSIVE BufsAfter(_, _, _)
BufsAfter(S, C, k) ==
    IF k = 0 THEN S
    ELSE BufsAfter(S \cup {Overlay(b, c) : b \in S, c \in C}, C, k - 1)
LateBufs(af, sk) ==
    BufsAfter(BufsAfter({<<>>}, Controls(af, sk, TRUE), MaxQueued),
              Controls(af, sk, FALSE), MaxRecv)

\* The contents the frame buffer can have: every recvmsg() writes a prefix.
LateFrames ==
    {f \in [1..MaxLen -> Byte \cup {Indet}] :
        \A i \in 1..(MaxLen - 1) : f[i] = Indet => f[i + 1] = Indet}

\* The top of the loop (line 167) late in a run with the default count: all
\* but the last MaxCount datagrams have been echoed.  The variables hold
\* what the iterations before left: datagram d was received on the socket
\* as set up by lines 142-165, into buffers that hold what earlier
\* datagrams left there (b, f), logged when verbose, and answered.
LateInit ==
    /\ pc = "recv"
    /\ count0 = DefaultCount
    /\ count \in 1..MaxCount
    /\ nsend = count0 - count
    /\ nrecv = nsend
    /\ addr_family \in FamilyValues
    /\ verbose \in VerboseValues
    /\ fd = 3
    /\ sock \in KernelSetsockopt(addr_family,
                 [bound |-> TRUE, pktinfo |-> FALSE, recvpktinfo |-> FALSE,
                  queued |-> 0])
    /\ exit_status = Running
    /\ cause = "none"
    /\ \E d \in Datagrams(addr_family), ok \in BOOLEAN :
         LET ctl == KernelControl(addr_family, sock, d, FALSE)
             n == Min(Len(d.payload), RecvMsghdr.iov_len)
             name == KernelName(addr_family, d)
             hdr == [RecvMsghdr EXCEPT
                        !.msg_namelen = IF addr_family = AF_INET
                                        THEN sizeof_sockaddr_in
                                        ELSE sizeof_sockaddr_in6,
                        !.msg_controllen = BlockLen(ctl, Len(ctl))]
         IN  \E buf \in {Overlay(b, ctl) : b \in LateBufs(addr_family, sock)},
                fr \in {WriteFrame(f, d.payload, n) : f \in LateFrames} :
               LET p == print_info(hdr, buf, name, verbose)
               IN  /\ res = n
                   /\ frame = fr
                   /\ rem_addr = name
                   /\ cbuf = buf
                   /\ msghdr = SendMsghdr(hdr, n)
                   /\ dgram = [received |-> TRUE, d |-> d, name |-> name,
                               control |-> ctl]
                   /\ info = IF verbose > 0 THEN p.info ELSE NoInfo
                   /\ stdout = IF verbose > 0
                               THEN [p.stdout EXCEPT !.echo_size = n] ELSE NoLine
                   /\ stderr = IF verbose > 0 THEN p.stderr ELSE <<>>
                   /\ \E dflt \in DefaultSources(addr_family, name) :
                        reply = KernelSendmsg(addr_family, SendMsghdr(hdr, n),
                                              buf, fr, name, ok, dflt)

\* Lines 167-194, the loop alone.
LateNext == RecvError \/ RecvOk \/ Log \/ Reply
LateSpec == LateInit /\ [][LateNext]_vars

(***************************************************************************)
(* The decoder on synthetic metadata blocks: pktinfo_get() is called once  *)
(* on a msghdr whose control buffer holds up to MaxCmsgs records.          *)
(***************************************************************************)
CmsgSamples ==
    {Cmsg4(2, <<10, 0, 0, 5>>, <<10, 0, 0, 5>>),
     Cmsg4(3, <<10, 0, 0, 6>>, <<10, 0, 0, 7>>),
     Cmsg6(<<8193, 3512, 0, 0, 0, 0, 0, 5>>, 2),
     Cmsg6(<<8193, 3512, 0, 0, 0, 0, 0, 6>>, 3),
     CmsgOther(1, 29, 16),                    \* SOL_SOCKET, SO_TIMESTAMP
     CmsgOther(IPPROTO_IPV6, IP_PKTINFO, 12)} \* the type of one level at the other
Blocks == UNION {[1..n -> CmsgSamples] : n \in 0..MaxCmsgs}

\* A msghdr after a receive that delivered the whole block, or (stale
\* records in the buffer) one that delivered no ancillary data, or one
\* whose msg_controllen ends behind the header of a record.
DecoderInit ==
    /\ pc = "decode"
    /\ cbuf \in Blocks
    /\ \E len \in {0, BlockLen(cbuf, Len(cbuf))}
                  \cup {BlockLen(cbuf, n) + sizeof_cmsghdr : n \in 0..(Len(cbuf) - 1)} :
         msghdr = [RecvMsghdr EXCEPT !.msg_controllen = len]
    /\ count = DefaultCount
    /\ addr_family = AF_INET6
    /\ verbose = 1
    /\ fd = Indet
    /\ sock = [bound |-> FALSE, pktinfo |-> FALSE, recvpktinfo |-> FALSE,
               queued |-> 0]
    /\ frame = [i \in 1..MaxLen |-> Indet]
    /\ rem_addr = IndetName
    /\ res = Indet
    /\ exit_status = Running
    /\ info = NoInfo
    /\ stdout = NoLine
    /\ stderr = <<>>
    /\ dgram = [received |-> FALSE]
    /\ reply = NoReply
    /\ nrecv = 0
    /\ nsend = 0
    /\ cause = "none"
    /\ count0 = count

\* int addr_family = pktinfo_get(my_hdr, &pktinfo, &pktinfo6), line 87.
Decode ==
    /\ pc = "decode"
    /\ LET st == pktinfo_get(msghdr, cbuf, IndetPktinfo, IndetPktinfo6)
       IN  /\ info' = [called |-> TRUE, addr_family |-> st.res,
                       pktinfo |-> st.pktinfo, pktinfo6 |-> st.pktinfo6,
                       scanned |-> st.scanned, name_family |-> rem_addr.ss_family]
           /\ stderr' = stderr \o st.diag
    /\ pc' = "decoded"
    /\ UNCHANGED <<count, addr_family, verbose, fd, sock, msghdr, cbuf, frame,
                   rem_addr, res, exit_status, stdout, dgram, reply, nrecv, nsend,
                   cause, count0>>

DecoderNext == Decode

DecoderSpec == DecoderInit /\ [][DecoderNext]_vars

(***************************************************************************)
(* Properties.                                                             *)
(***************************************************************************)
\* The family of a destination-info record, -1 for any other record.
DstInfoFamily(c) ==
    IF c.cmsg_level = IPPROTO_IP /\ c.cmsg_type = IP_PKTINFO THEN AF_INET
    ELSE IF c.cmsg_level = IPPROTO_IPV6 /\ c.cmsg_type = IPV6_PKTINFO THEN AF_INET6
    ELSE -1
Recognized(blk) == {i \in 1..Len(blk) : DstInfoFamily(blk[i]) # -1}
\* The records of the block a msghdr describes: those whose header lies
\* within the first msg_controllen bytes of the buffer.
BlockRecords(my_hdr, buf) ==
    LET S == {n \in 0..Len(buf) :
                 n = 0 \/ BlockLen(buf, n - 1) + sizeof_cmsghdr <= my_hdr.msg_controllen}
        n == CHOOSE k \in S : \A j \in S : j <= k
    IN  SubSeq(buf, 1, n)
LastRecognized(blk) == CHOOSE i \in Recognized(blk) : \A j \in Recognized(blk) : j <= i

\* The peer address the receive reported, as the socket's family names it.
ReportedPeer ==
    IF addr_family = AF_INET6 /\ dgram.d.fam = AF_INET
    THEN V4Mapped(dgram.d.peer) ELSE dgram.d.peer

\* C1 (echo fidelity): the sendmsg() issued for a received datagram carries
\* exactly the received bytes, has the received length (not the capacity of
\* the buffer), and goes to the peer address and port the receive reported.
C1_EchoFidelity ==
    reply.issued =>
        /\ reply.payload = dgram.d.payload
        /\ reply.len = Len(dgram.d.payload)
        /\ reply.to = ReportedPeer
        /\ reply.port = dgram.d.port

\* A second datagram, shorter than the bytes a former one left in the
\* buffer, from another peer, has been echoed.
C1_Witness ==
    /\ reply.issued /\ reply.ok
    /\ nrecv >= 2
    /\ reply.len = 0
    /\ frame[1] # Indet
    /\ reply.to = ReportedPeer

\* C2 (destination-address symmetry): when the receive delivered destination
\* metadata for a datagram sent to local address A, the reply is sent with
\* source address A, on an AF_INET and on an AF_INET6 socket.
C2_SourceSymmetry ==
    (reply.issued /\ reply.ok /\ Recognized(dgram.control) # {}) =>
        reply.src = dgram.d.dst

\* C3 (count-bounded termination): with a configured count N >= 1 the loop
\* never issues more than N replies, issues no receive once N replies are
\* out, and stops by count exhaustion after exactly N replies with status 0.
C3_CountBounded ==
    count0 >= 1 =>
        /\ nsend <= count0
        /\ (nsend = count0 => pc = "done" /\ cause = "count")
        /\ (cause = "count" => pc = "done" /\ nsend = count0 /\ exit_status = 0)
        /\ (pc # "done" => count = count0 - nsend)

\* The loop stopped by count exhaustion after MaxCount replies.
C3_Witness ==
    /\ count0 = MaxCount
    /\ pc = "done" /\ cause = "count"
    /\ nsend = MaxCount /\ nrecv = MaxCount
    /\ exit_status = 0

\* C4 (zero-length datagram): a receive that returns 0 does not end the
\* loop; the loop goes on to the reply, and the reply has length 0.
C4_ZeroLength ==
    (dgram.received /\ Len(dgram.d.payload) = 0) =>
        /\ res = 0 \/ pc = "done"
        /\ ~reply.issued => (pc \in {"log", "send"} /\ cause = "none")
        /\ reply.issued => (reply.len = 0 /\ reply.payload = <<>>)

\* A zero-length datagram was received and a zero-length reply was sent
\* with the loop still running.
C4_Witness ==
    /\ dgram.received /\ Len(dgram.d.payload) = 0
    /\ reply.issued /\ reply.ok /\ reply.len = 0
    /\ pc = "recv"

\* C5 (family invariant): a present decoded destination info has the family
\* the socket was bound with; when a record of the other family is in the
\* block, a diagnostic is written and the decoded info is not combined with
\* a peer address of another family.
C5_FamilyInvariant ==
    info.called =>
        /\ (info.addr_family # -1 => info.addr_family = addr_family)
        /\ (\E i \in 1..Len(dgram.control) :
                DstInfoFamily(dgram.control[i]) \notin {-1, addr_family})
            => (stderr # <<>> /\ info.addr_family = info.name_family)

\* C6 (exit status): a stop by count exhaustion exits with success, a stop
\* by a failed receive exits with failure.
C6_ExitStatus ==
    pc = "done" =>
        /\ (cause = "count" => exit_status = 0)
        /\ (cause = "recv" => exit_status # 0)

\* C7 (send failure): a failed sendmsg() is logged and the loop goes on; it
\* is not the cause of a stop.
C7_SendFailureLogged ==
    (reply.issued /\ ~reply.ok) =>
        /\ \E i \in 1..Len(stderr) : stderr[i].msg = "sendmsg"
        /\ cause \in {"none", "count", "recv", "trap"}

\* C8 (last wins): the decoder runs its loop body for every record of the
\* block, in order, and returns the family and the values of the last
\* destination-info record; one IPv4 record (10.0.0.5, interface 2) gives
\* the IPv4 variant with these values.
C8_LastWins ==
    pc = "decoded" =>
        LET blk == BlockRecords(msghdr, cbuf)
        IN  /\ info.scanned = Len(blk)
            /\ Recognized(blk) # {} =>
                  LET c == blk[LastRecognized(blk)]
                  IN  /\ info.addr_family = DstInfoFamily(c)
                      /\ DstInfoFamily(c) = AF_INET => info.pktinfo = c.data
                      /\ DstInfoFamily(c) = AF_INET6 => info.pktinfo6 = c.data
            /\ blk = <<Cmsg4(2, <<10, 0, 0, 5>>, <<10, 0, 0, 5>>)>> =>
                  /\ info.addr_family = AF_INET
                  /\ info.pktinfo.ipi_spec_dst = <<10, 0, 0, 5>>
                  /\ info.pktinfo.ipi_addr = <<10, 0, 0, 5>>
                  /\ info.pktinfo.ipi_ifindex = 2

\* A block of two IPv4 records with different addresses, an unrecognized
\* record between them, was decoded to the second one.
C8_Witness ==
    /\ pc = "decoded"
    /\ Visible(msghdr, cbuf) =
          <<Cmsg4(2, <<10, 0, 0, 5>>, <<10, 0, 0, 5>>),
            CmsgOther(1, 29, 16),
            Cmsg4(3, <<10, 0, 0, 6>>, <<10, 0, 0, 7>>)>>
    /\ info.addr_family = AF_INET
    /\ info.pktinfo.ipi_spec_dst = <<10, 0, 0, 6>>

\* C9 (totality, Absent): every call of the decoder returns one of -1,
\* AF_INET, AF_INET6; a block of length 0 gives -1 with no record scanned;
\* the result is -1 exactly when the block has no destination-info record,
\* and then each of its records got a diagnostic.
C9_Absent ==
    /\ pc = "decode" =>
        pktinfo_get(msghdr, cbuf, IndetPktinfo, IndetPktinfo6).res
            \in {-1, AF_INET, AF_INET6}
    /\ pc = "decoded" =>
        LET blk == BlockRecords(msghdr, cbuf)
        IN  /\ info.addr_family \in {-1, AF_INET, AF_INET6}
            /\ msghdr.msg_controllen = 0 =>
                  (info.addr_family = -1 /\ info.scanned = 0 /\ stderr = <<>>)
            /\ info.addr_family = -1 <=> Recognized(blk) = {}
            /\ Recognized(blk) = {} => Len(stderr) = Len(blk)

\* A block holding only unrecognized records was decoded to Absent.
C9_Witness ==
    /\ pc = "decoded"
    /\ Len(Visible(msghdr, cbuf)) >= 2
    /\ Recognized(Visible(msghdr, cbuf)) = {}
    /\ info.addr_family = -1
    /\ Len(stderr) = Len(Visible(msghdr, cbuf))

\* C10 (fatal startup errors): when socket() or bind() failed, main() is at
\* the bind step or has returned with a non-zero status, and no recvmsg()
\* and no sendmsg() was issued.
C10_FatalStartup ==
    (pc \notin {"socket", "bind"} /\ (fd < 0 \/ ~sock.bound)) =>
        /\ pc = "done"
        /\ exit_status # 0 /\ exit_status # Running
        /\ nrecv = 0 /\ nsend = 0
        /\ msghdr = IndetMsghdr
        /\ ~dgram.received /\ ~reply.issued

\* socket() failed and main() returned 1 after the bind step.
C10_Witness ==
    /\ fd < 0
    /\ pc = "done"
    /\ exit_status = 1
    /\ nrecv = 0

\* C11 (configuration-degraded mode): when both requests for destination
\* metadata failed, a diagnostic is written before the loop starts, the loop
\* is entered, and every decode gives Absent.
C11_DegradedMode ==
    (pc \notin {"socket", "bind", "setsockopt"} /\ sock.bound
        /\ ~sock.pktinfo /\ ~sock.recvpktinfo) =>
        /\ nrecv = 0 => \E i \in 1..Len(stderr) : stderr[i].msg = "setsockopt"
        /\ info.called => info.addr_family = -1
        /\ (pc = "done" => cause \in {"recv", "count", "trap"})

\* C12 (decode anomalies never suppress the echo): every received datagram
\* gets its sendmsg() before the next recvmsg() or the end of the loop,
\* whatever its metadata block holds; when the decoder ran and found no
\* destination info, or a record it does not know, it wrote a diagnostic
\* and the reply still echoes the datagram.
C12_EchoNotSuppressed ==
    dgram.received =>
        /\ pc \in {"recv", "done"} => reply.issued
        /\ ~reply.issued => pc \in {"log", "send"}
        /\ (info.called /\ info.addr_family = -1) =>
              /\ Len(stderr) >= 1 /\ stderr[Len(stderr)] = NoDstDiag
              /\ reply.issued => reply.payload = dgram.d.payload
        /\ info.called =>
              \A i \in 1..Len(dgram.control) :
                  DstInfoFamily(dgram.control[i]) = -1 =>
                      \E j \in 1..Len(stderr) :
                          stderr[j] = UnknownDiag(dgram.control[i])

\* A datagram without destination info was logged, diagnosed and echoed.
C12_Witness ==
    /\ dgram.received
    /\ info.called /\ info.addr_family = -1
    /\ stderr = <<NoDstDiag>>
    /\ reply.issued /\ reply.ok
    /\ reply.payload = dgram.d.payload /\ reply.len = 1

\* C13 (strict alternation): the replies issued number as many as the
\* successful receives, or one less; a receive is issued only when every
\* received datagram has its reply, and between a receive and its reply no
\* other receive is issued.
C13_Alternation ==
    /\ nsend <= nrecv /\ nrecv <= nsend + 1
    /\ pc = "recv" => nsend = nrecv
    /\ pc \in {"log", "send"} => (nrecv = nsend + 1 /\ ~reply.issued)
    /\ reply.issued => nsend = nrecv

\* The second datagram is received and waits for its reply.
C13_Witness ==
    /\ pc = "send"
    /\ nrecv = 2 /\ nsend = 1
    /\ ~reply.issued

\* C15 (metadata reuse): the ancillary block of a reply is the block that
\* the receive of the same datagram delivered: same records, same order,
\* same length, nothing left in the buffer by an earlier receive; when the
\* receive delivered nothing (the decoder finds no destination info), the
\* reply has an empty block and the kernel chooses the source.  (After a
\* failed receive the header no longer is the one of the last reply.)
C15_MetadataReuse ==
    reply.issued =>
        /\ reply.control = dgram.control
        /\ dgram.control = <<>> =>
              reply.src \in DefaultSources(addr_family, rem_addr)
        /\ res >= 0 =>
              /\ BlockLen(reply.control, Len(reply.control)) = msghdr.msg_controllen
              /\ pktinfo_get(msghdr, cbuf, IndetPktinfo, IndetPktinfo6).res = -1 =>
                    reply.control = <<>>

\* The control buffer still holds the record of an earlier datagram while
\* the reply to a datagram that came without metadata is sent without it.
C15_Witness ==
    /\ reply.issued
    /\ nrecv >= 2
    /\ dgram.control = <<>>
    /\ cbuf # <<>>
    /\ reply.control = <<>>

\* C17 (non-positive count): with count 0 or negative, as long as the
\* counter has only been decremented inside the range of int (it is at most
\* its initial value), the test after a decrement never sees zero: the loop
\* is not stopped by the counter, and once entered it ends on a failed
\* receive (the decrement of INT_MIN leaves the range).  A stop by count
\* exhaustion comes from an initial count of at least 1.
C17_NonPositive ==
    /\ (count0 <= 0 /\ count <= count0) =>
          /\ cause # "count"
          /\ count = 0 => nsend = 0
          /\ (pc = "done" /\ cause # "bind") =>
                (cause = "recv" \/ (cause = "trap" /\ count = INT_MIN))
    /\ cause = "count" => count0 >= 1

\* Count 0: two replies were sent, the counter is at -2, and the loop ended
\* on a failed receive.
C17_Witness ==
    /\ count0 = 0
    /\ nsend = 2 /\ count = -2
    /\ pc = "done" /\ cause = "recv"

\* The int counter one decrement later, in its 32-bit width, and n
\* decrements later.
Dec32(c) == IF c = INT_MIN THEN INT_MAX ELSE c - 1
RECURSIVE DecN(_, _)
DecN(c, n) == IF n = 0 THEN c ELSE DecN(Dec32(c), n - 1)

\* C16 (counter accounting): the counter goes down by one for every
\* successful receive, after the send attempt and also when that send
\* failed: at the top of the loop the receives and the send attempts are
\* equal in number and the counter is its initial value less that number
\* (in the width of int); between a receive and its send the counter is not
\* yet decremented for that receive.  A run that aborted inside the
\* decrement is left out.
C16_CounterAccounting ==
    /\ pc = "recv" => nsend = nrecv
    /\ cause # "trap" => count = DecN(count0, nsend)
    /\ (pc = "recv" /\ 0 < count0) => count0 - count = nsend
    /\ (reply.issued /\ ~reply.ok /\ cause # "trap") =>
          count = DecN(count0, nrecv)

\* A send failed and the loop is back at its top with one unit consumed.
C16_Witness ==
    /\ pc = "recv"
    /\ reply.issued /\ ~reply.ok
    /\ count0 = 2 /\ nsend = 1 /\ nrecv = 1
    /\ count = 1

\* C14 as stated (unbounded default): in the default configuration the loop
\* is never stopped by the reply counter.
C14_NeverByCounter ==
    count0 = DefaultCount => cause # "count"

\* C14 as amended: in the default configuration the counter starts at
\* DefaultCount; it stops the loop after exactly that many replies and not
\* before, where only a failed receive ends the loop.
C14_DefaultCountFinite ==
    count0 = DefaultCount =>
        /\ nsend <= DefaultCount
        /\ count = DefaultCount - nsend
        /\ cause = "count" <=> (nsend = DefaultCount /\ pc = "done")
        /\ (pc = "done" /\ nsend < DefaultCount) => cause = "recv"
        /\ pc = "done" => exit_status = 0

\* The default run was stopped by its counter with the last reply.
C14_Witness ==
    /\ count0 = DefaultCount
    /\ pc = "done" /\ cause = "count"
    /\ nsend = DefaultCount /\ nrecv = DefaultCount
    /\ reply.issued

\* C18 (verbosity non-interference): the decoder runs only when verbose > 0
\* and only writes the log; every reply (peer, port, payload, length,
\* ancillary block) is determined by the datagram received, the counter by
\* its initial value and the number of replies, and the stop by the counter
\* and the result of the receive: none depends on verbose or on what the
\* decoder returned.  Two runs with the same receive results that differ in
\* verbose therefore issue the same replies and stop at the same point.
C18_VerbosityNonInterference ==
    /\ info.called => verbose > 0
    /\ verbose = 0 => (pc # "log" /\ stdout = NoLine
                          /\ (dgram.received => stderr = <<>>))
    /\ (verbose > 0 /\ reply.issued) => (info.called /\ stdout.printed)
    /\ reply.issued =>
          /\ reply.to = SendDest(addr_family, dgram.name)
          /\ reply.port = htons(dgram.name.port)
          /\ reply.payload = dgram.d.payload
          /\ reply.len = Len(dgram.d.payload)
          /\ reply.control = dgram.control
    /\ cause # "trap" => count = DecN(count0, nsend)
    /\ pc = "done" =>
          \/ cause = "bind" /\ nrecv = 0
          \/ cause = "recv" /\ res = -1 /\ nsend = nrecv
          \/ cause = "count" /\ count = 0 /\ nsend = nrecv /\ nsend >= 1
          \/ cause = "trap" /\ count = INT_MIN /\ nsend = nrecv

\* A verbose run decoded a destination record, logged it, and sent the
\* reply with the block as received.
C18_Witness ==
    /\ verbose > 0
    /\ info.called /\ info.addr_family = AF_INET
    /\ stdout.printed
    /\ reply.issued
    /\ dgram.control # <<>>
    /\ reply.control = dgram.control

====
